---- MODULE Spec2Model ----
(***************************************************************************)
(* Model of the DBD ingestion pipeline of src/wfc/scraper.py: discovery of *)
(* the slugs from the sitemap, scrape_post (post page, comments page with  *)
(* its 429 retry loop, the recursive comment count), save_post into the    *)
(* two SQLite tables, and the scrape_year loop that drives them.           *)
(*                                                                         *)
(* Values that come out of json.loads are tagged records [type, val], so   *)
(* that a dict, a list, a string, a number and null can be told apart the  *)
(* way the Python code meets them (x.get on a non-dict raises, and so on). *)
(* A table is a bag of rows: SQLite keeps rows by rowid, and the primary   *)
(* key is a uniqueness constraint on top of that.                          *)
(***************************************************************************)
EXTENDS Bags, FiniteSets, Integers, Sequences, TLC

(***************************************************************************)
(* Bounds of the model.                                                    *)
(***************************************************************************)
MaxRuns == 2

(***************************************************************************)
(* Program constants.                                                      *)
(***************************************************************************)
MaxAttempts == 3
BackoffUnit == 5
Delay == 1

(***************************************************************************)
(* JSON / Python values.                                                   *)
(***************************************************************************)
JStr(s) == [type |-> "str", val |-> s]
JNum(n) == [type |-> "num", val |-> n]
JNull == [type |-> "null", val |-> "None"]
JArr(items) == [type |-> "array", val |-> items]
JObj(members) == [type |-> "object", val |-> members]

IsDict(v) == v.type = "object"

HasKey(d, k) == \E m \in d.val : m[1] = k

\* dict.get(k, default)
Get(d, k, default) ==
    IF HasKey(d, k) THEN (CHOOSE m \in d.val : m[1] = k)[2] ELSE default

\* A value that can be a dict key.
Hashable(v) == v.type \in {"str", "num", "null"}

\* A value sqlite3 can bind to a statement parameter.
Storable(v) == v.type \in {"str", "num", "null"}

EmptyDict == [n \in {} |-> 0]

\* commenter_counts[name] = commenter_counts.get(name, 0) + 1
Incr(counts, name) ==
    IF name \in DOMAIN counts
    THEN [counts EXCEPT ![name] = @ + 1]
    ELSE [n \in (DOMAIN counts) \cup {name} |->
             IF n = name THEN 1 ELSE counts[n]]

(***************************************************************************)
(* count_comments: the recursive walk of the comment tree.  It updates     *)
(* commenter_counts in place, so what was counted before an exception      *)
(* stays counted.  The result is the dict and the exception raised ("" if  *)
(* none).                                                                  *)
(***************************************************************************)
\* The loop of count_comments without the recursive call on 'children'
RECURSIVE CountNodes_TopLevelOnly(_, _)
CountNodes_TopLevelOnly(items, counts) ==
    IF items = << >> THEN [counts |-> counts, exc |-> ""]
    ELSE LET c == Head(items) IN
         IF ~IsDict(c) THEN [counts |-> counts, exc |-> "AttributeError"]
         ELSE LET name == Get(c, "name", JStr("Unknown")) IN
              IF ~Hashable(name) THEN [counts |-> counts, exc |-> "TypeError"]
              ELSE CountNodes_TopLevelOnly(Tail(items), Incr(counts, name))

RECURSIVE CountNodes(_, _)
RECURSIVE count_comments(_, _)

CountNodes(items, counts) ==
    IF items = << >> THEN [counts |-> counts, exc |-> ""]
    ELSE LET c == Head(items) IN
         IF ~IsDict(c) THEN [counts |-> counts, exc |-> "AttributeError"]
         ELSE LET name == Get(c, "name", JStr("Unknown")) IN
              IF ~Hashable(name) THEN [counts |-> counts, exc |-> "TypeError"]
              ELSE LET counted == Incr(counts, name)
                       sub == IF HasKey(c, "children")
                              THEN count_comments(Get(c, "children", JNull), counted)
                              ELSE [counts |-> counted, exc |-> ""]
                   IN IF sub.exc # "" THEN sub
                      ELSE CountNodes(Tail(items), sub.counts)

count_comments(comment_list, counts) ==
    CASE comment_list.type = "array" -> CountNodes(comment_list.val, counts)
      [] comment_list.type = "object" ->
            IF comment_list.val = {} THEN [counts |-> counts, exc |-> ""]
            ELSE [counts |-> counts, exc |-> "AttributeError"]
      [] comment_list.type = "str" ->
            IF comment_list.val = "" THEN [counts |-> counts, exc |-> ""]
            ELSE [counts |-> counts, exc |-> "AttributeError"]
      [] OTHER -> [counts |-> counts, exc |-> "TypeError"]

(***************************************************************************)
(* Slugs.  A slug dbd-MM-DD-YYYY-subject is the sequence of its tokens     *)
(* between the dashes.  TokenOrder lists the tokens used in ascending      *)
(* Python string order; for tokens without characters below "-" the        *)
(* comparison of the slug strings is the lexicographic comparison of the   *)
(* token sequences, a proper prefix first.                                 *)
(***************************************************************************)
SlugFoo == << "dbd", "01", "15", "2025", "foo" >>
SlugRecap == << "dbd", "12", "31", "2024", "best", "of", "2025", "recap" >>
SlugBar == << "dbd", "02", "01", "2024", "bar" >>

TokenOrder ==
    << "01", "02", "12", "15", "2024", "2025", "31", "bar", "best", "dbd", "foo",
       "of", "recap" >>

TokenRank(t) == CHOOSE k \in 1..Len(TokenOrder) : TokenOrder[k] = t

RECURSIVE SlugLess(_, _)
SlugLess(a, b) ==
    IF a = << >> THEN b # << >>
    ELSE IF b = << >> THEN FALSE
    ELSE IF Head(a) = Head(b) THEN SlugLess(Tail(a), Tail(b))
    ELSE TokenRank(Head(a)) < TokenRank(Head(b))

\* sorted(set(slugs))
RECURSIVE SortedSet(_)
SortedSet(S) ==
    IF S = {} THEN << >>
    ELSE LET least == CHOOSE x \in S : \A y \in S \ {x} : SlugLess(x, y)
         IN << least >> \o SortedSet(S \ {least})

SeqToSet(q) == {q[k] : k \in 1..Len(q)}

\* f"-{year}-" in s
YearTokenIn(s, y) == \E k \in 2..(Len(s) - 1) : s[k] = ToString(y)

RECURSIVE SelectYear(_, _)
SelectYear(q, y) ==
    IF q = << >> THEN << >>
    ELSE IF YearTokenIn(Head(q), y)
         THEN << Head(q) >> \o SelectYear(Tail(q), y)
         ELSE SelectYear(Tail(q), y)

\* "return slugs": the matches as re.findall found them
get_all_dbd_slugs_AsFound(matches) == matches

\* get_all_dbd_slugs on the matches re.findall finds in the sitemap text
get_all_dbd_slugs(matches) == SortedSet(SeqToSet(matches))

\* get_dbd_slugs_for_year
get_dbd_slugs_for_year(matches, y) == SelectYear(get_all_dbd_slugs(matches), y)

(***************************************************************************)
(* HTTP.  A request ends in a transport exception or in a response with a  *)
(* status and a body.                                                      *)
(***************************************************************************)
Statuses == {200, 429, 500}

\* Only the server errors raise.
RaisesForStatus_ServerErrors(status) == status >= 500 /\ status < 600

\* Response.raise_for_status raises for 4xx and 5xx
RaisesForStatus(status) == status >= 400 /\ status < 600

TransportError == [kind |-> "exception", status |-> 0]

Responses(bodies) ==
    {TransportError} \cup
    {[kind |-> "response", status |-> st, body |-> b] : st \in Statuses, b \in bodies}

\* The sitemap texts: the slugs the pattern finds, in document order.
Sitemaps ==
    { << SlugRecap, SlugFoo, SlugFoo >>,
      << SlugFoo >>,
      << >> }

Years == {2024, 2025}

(***************************************************************************)
(* Page bodies: whether JSON.parse("...") is found, whether the match      *)
(* decodes (unicode_escape, then json.loads), the decoded value, and the   *)
(* poll id found in the raw HTML.                                          *)
(***************************************************************************)
Body(match, decodes, data, poll) ==
    [match |-> match, decodes |-> decodes, data |-> data, poll |-> poll]

PageNoPayload == Body(FALSE, FALSE, JNull, JNull)
PageUndecodable == Body(TRUE, FALSE, JNull, JNull)
PageList == Body(TRUE, TRUE, JArr(<< >>), JNull)
PagePostNull == Body(TRUE, TRUE, JObj({<< "post", JNull >>}), JNull)
PageEmpty == Body(TRUE, TRUE, JObj({}), JNull)
PageFull ==
    Body(TRUE, TRUE,
         JObj({<< "post",
                  JObj({<< "title", JStr("t1") >>,
                        << "post_date", JStr("2025-01-15T12:00:00Z") >>,
                        << "comment_count", JNum(3) >>,
                        << "cover_image", JStr("img") >>}) >>}),
         JNum(12345))
PageTitleList ==
    Body(TRUE, TRUE, JObj({<< "post", JObj({<< "title", JArr(<< >>) >>}) >>}), JNull)

PostBodies ==
    {PageNoPayload, PageUndecodable, PageList, PagePostNull, PageEmpty, PageFull,
     PageTitleList}

Node(name) == JObj({<< "name", name >>})
NodeWith(name, children) == JObj({<< "name", name >>, << "children", children >>})
Tree(nodes) == Body(TRUE, TRUE, JObj({<< "initialComments", JArr(nodes) >>}), JNull)

\* [{name: a}, {name: b, children: [{name: a}]}]
CommentsAB ==
    Tree(<< Node(JStr("a")), NodeWith(JStr("b"), JArr(<< Node(JStr("a")) >>)) >>)
\* [{name: a}, 5]: the second element is no dict
CommentsBroken == Tree(<< Node(JStr("a")), JNum(5) >>)
\* [{name: null}]
CommentsNullName == Tree(<< Node(JNull) >>)
\* [{name: null}, {name: null}]
CommentsNullTwice == Tree(<< Node(JNull), Node(JNull) >>)

CommentsBodies ==
    {PageNoPayload, PageUndecodable, PageList, CommentsAB, CommentsBroken,
     CommentsNullName, CommentsNullTwice}

(***************************************************************************)
(* scrape_post, first half: the payload of the post page and its fields.   *)
(* The result is "none" (scrape_post returns None), "raise" (an exception  *)
(* no handler of scrape_post or scrape_year catches) or "ok".              *)
(***************************************************************************)
NoFields ==
    [title |-> JNull, post_date |-> JNull, comment_count |-> JNull,
     cover_image |-> JNull, poll_id |-> JNull]

\* A page without payload taken as a post with empty fields.
ReadPost_EmptyOnNotFound(body) ==
    IF ~body.match
    THEN [result |-> "ok",
          fields |-> [title |-> JStr(""), post_date |-> JStr(""),
                      comment_count |-> JNum(0), cover_image |-> JNull,
                      poll_id |-> body.poll]]
    ELSE IF ~body.decodes THEN [result |-> "none", fields |-> NoFields]
    ELSE IF ~IsDict(body.data) THEN [result |-> "raise", fields |-> NoFields]
    ELSE LET post == Get(body.data, "post", JObj({})) IN
         IF ~IsDict(post) THEN [result |-> "raise", fields |-> NoFields]
         ELSE [result |-> "ok",
               fields |-> [title |-> Get(post, "title", JStr("")),
                           post_date |-> Get(post, "post_date", JStr("")),
                           comment_count |-> Get(post, "comment_count", JNum(0)),
                           cover_image |-> Get(post, "cover_image", JNull),
                           poll_id |-> body.poll]]

ReadPost(body) ==
    IF ~body.match THEN [result |-> "none", fields |-> NoFields]
    ELSE IF ~body.decodes THEN [result |-> "none", fields |-> NoFields]
    ELSE IF ~IsDict(body.data) THEN [result |-> "raise", fields |-> NoFields]
    ELSE LET post == Get(body.data, "post", JObj({})) IN
         IF ~IsDict(post) THEN [result |-> "raise", fields |-> NoFields]
         ELSE [result |-> "ok",
               fields |-> [title |-> Get(post, "title", JStr("")),
                           post_date |-> Get(post, "post_date", JStr("")),
                           comment_count |-> Get(post, "comment_count", JNum(0)),
                           cover_image |-> Get(post, "cover_image", JNull),
                           poll_id |-> body.poll]]

\* wait_time = attempt * 5: the loop index taken as the attempt number
wait_time_FromZero(attempt) == attempt * BackoffUnit

\* wait_time = (attempt + 1) * 5
wait_time(attempt) == (attempt + 1) * BackoffUnit

(***************************************************************************)
(* scrape_post, the comments payload: the dict of counts, the number of    *)
(* unique commenters and the exception the handler at the end of the       *)
(* comments stage catches ("" if none).                                    *)
(***************************************************************************)
ReadComments(body) ==
    IF ~body.match THEN [counts |-> EmptyDict, unique |-> 0, exc |-> ""]
    ELSE IF ~body.decodes
         THEN [counts |-> EmptyDict, unique |-> 0, exc |-> "JSONDecodeError"]
    ELSE IF ~IsDict(body.data)
         THEN [counts |-> EmptyDict, unique |-> 0, exc |-> "AttributeError"]
    ELSE LET walk == count_comments(Get(body.data, "initialComments", JArr(<< >>)),
                                    EmptyDict)
         IN IF walk.exc = ""
            THEN [counts |-> walk.counts,
                  unique |-> Cardinality(DOMAIN walk.counts), exc |-> ""]
            ELSE [counts |-> walk.counts, unique |-> 0, exc |-> walk.exc]

DBDPost(slug, f, unique, counts) ==
    [slug |-> slug, title |-> f.title, post_date |-> f.post_date,
     comment_count |-> f.comment_count, unique_commenters |-> unique,
     cover_image |-> f.cover_image, poll_id |-> f.poll_id,
     poll_total_votes |-> JNull, commenter_counts |-> counts]

(***************************************************************************)
(* The store.  INSERT OR REPLACE deletes the rows that conflict with the   *)
(* new row on the primary key and inserts the new row.  In SQLite a NULL   *)
(* in a primary key column of an ordinary table conflicts with nothing.    *)
(***************************************************************************)
Rows(table) == BagToSet(table)

Without(table, gone) == [r \in Rows(table) \ gone |-> table[r]]

PostConflicts(table, row) == {r \in Rows(table) : r.slug = row.slug}

ActivityConflicts(table, row) ==
    {r \in Rows(table) : /\ r.slug = row.slug
                         /\ r.username = row.username
                         /\ row.username.type # "null"}

InsertOrReplacePost(table, row) ==
    Without(table, PostConflicts(table, row)) (+) SetToBag({row})

InsertOrReplaceActivity(table, row) ==
    Without(table, ActivityConflicts(table, row)) (+) SetToBag({row})

RECURSIVE SaveActivity(_, _, _, _)
SaveActivity(table, slug, counts, names) ==
    IF names = {} THEN table
    ELSE LET username == CHOOSE n \in names : TRUE
             row == [slug |-> slug, username |-> username,
                     comment_count |-> counts[username]]
         IN SaveActivity(InsertOrReplaceActivity(table, row), slug, counts,
                         names \ {username})

\* save_post without conn.commit(): closing the connection rolls back.
save_post_NoCommit(post, posts_t, activity_t, now) ==
    IF \E v \in {post.title, post.post_date, post.comment_count, post.cover_image,
                 post.poll_id} : ~Storable(v)
    THEN [posts |-> posts_t, activity |-> activity_t, exc |-> "ProgrammingError"]
    ELSE [posts |-> posts_t, activity |-> activity_t, exc |-> ""]

\* save_post with the author rows written first and committed one by one:
\* they stay when the posts row cannot be bound.
save_post_ActivityFirst(post, posts_t, activity_t, now) ==
    IF \E v \in {post.title, post.post_date, post.comment_count, post.cover_image,
                 post.poll_id} : ~Storable(v)
    THEN [posts |-> posts_t,
          activity |-> SaveActivity(activity_t, post.slug, post.commenter_counts,
                                    DOMAIN post.commenter_counts),
          exc |-> "ProgrammingError"]
    ELSE [posts |-> InsertOrReplacePost(posts_t,
                        [slug |-> post.slug, title |-> post.title,
                         post_date |-> post.post_date,
                         comment_count |-> post.comment_count,
                         unique_commenters |-> post.unique_commenters,
                         cover_image |-> post.cover_image,
                         poll_id |-> post.poll_id,
                         poll_total_votes |-> post.poll_total_votes,
                         scraped_at |-> now]),
          activity |-> SaveActivity(activity_t, post.slug, post.commenter_counts,
                                    DOMAIN post.commenter_counts),
          exc |-> ""]

\* save_post: the tables after the commit, or the exception of the execute
\* that could not bind a parameter (then nothing is committed).
save_post(post, posts_t, activity_t, now) ==
    IF \E v \in {post.title, post.post_date, post.comment_count, post.cover_image,
                 post.poll_id} : ~Storable(v)
    THEN [posts |-> posts_t, activity |-> activity_t, exc |-> "ProgrammingError"]
    ELSE [posts |-> InsertOrReplacePost(posts_t,
                        [slug |-> post.slug, title |-> post.title,
                         post_date |-> post.post_date,
                         comment_count |-> post.comment_count,
                         unique_commenters |-> post.unique_commenters,
                         cover_image |-> post.cover_image,
                         poll_id |-> post.poll_id,
                         poll_total_votes |-> post.poll_total_votes,
                         scraped_at |-> now]),
          activity |-> SaveActivity(activity_t, post.slug, post.commenter_counts,
                                    DOMAIN post.commenter_counts),
          exc |-> ""]


(***************************************************************************)
(* State.                                                                  *)
(*   posts, commenter_activity   the two tables of dbd_history.db          *)
(*   clock                       datetime.now(), one tick per run          *)
(*   pc                          where the scrape_year process is          *)
(*   year, skip_existing         the arguments of scrape_year              *)
(*   slugs, i                    the discovered list and the loop index    *)
(*   fields, attempt, commenter_counts, unique_commenters                  *)
(*                               the locals of scrape_post                 *)
(* and what an observer of the run sees:                                   *)
(*   outcome       per slug of the list: Pending, Extracted,               *)
(*                 CommentsFetched, Persisted, Skipped or Failed           *)
(*   page          the answer to the post-page request of this slug        *)
(*   comments_log  the answers to the comments requests of this slug       *)
(*   comments_exc  the exception caught at the end of the comments stage   *)
(*   backoffs      the seconds slept in the retry loop for this slug       *)
(*   paced         the seconds scrape_year slept after the last slug       *)
(*   gets          the GET requests issued: for the sitemap in this run,   *)
(*                 for the post and the comments page of this slug         *)
(*   resumed       this run follows a killed one, with skip_existing       *)
(*   listing       the status of the answer to the sitemap request of this *)
(*                 run                                                     *)
(*   top_commenters   args.top_commenters of the command line              *)
(* Two processes in save_post at the same time:                            *)
(*   writers       per process: where it is in save_post, the post it      *)
(*                 saves, the tables as its open transaction sees them     *)
(*   db_lock       the process that holds the write lock of the database   *)
(*                 file, 0 if none                                         *)
(* The slug discovery on its own:                                          *)
(*   matches       what the regular expression finds in the sitemap        *)
(*   wanted        the year asked for                                      *)
(*   listed        what get_all_dbd_slugs and get_dbd_slugs_for_year       *)
(*                 return                                                  *)
(* The comment aggregation on its own:                                     *)
(*   comment_list  the 'comments' value of a comments payload              *)
(*   tally         commenter_counts and unique_commenters for it           *)
(* The monitor process (monitor.py):                                       *)
(*   w_pc          where main() stands in its loop                         *)
(*   hour          datetime.now().hour as is_active_hours last read it     *)
(*   current_url, latest_url, new_count    the locals of main()            *)
(*   state_file    the lines of STATE_FILE, or no file                     *)
(*   notifications, requests, slept   what an observer sees of the current *)
(*                 pass of the loop: the notifications sent, the GET       *)
(*                 requests issued, the seconds slept                      *)
(***************************************************************************)
VARIABLES posts, commenter_activity, clock,
          pc, year, skip_existing, slugs, i,
          fields, attempt, commenter_counts, unique_commenters,
          outcome, page, comments_log, comments_exc, backoffs, paced, gets,
          resumed, listing, top_commenters,
          writers, db_lock,
          matches, wanted, listed,
          comment_list, tally,
          w_pc, hour, current_url, latest_url, new_count, state_file,
          notifications, requests, slept

\* SELECT 1 FROM commenter_activity WHERE slug = ?: the wrong table
is_post_scraped_ByActivity(slug) == \E r \in Rows(commenter_activity) : r.slug = slug

\* is_post_scraped: SELECT 1 FROM posts WHERE slug = ?
is_post_scraped(slug) == \E r \in Rows(posts) : r.slug = slug

store == << posts, commenter_activity >>
args == << year, skip_existing >>
locals == << fields, attempt, commenter_counts, unique_commenters >>
observed == << page, comments_log, comments_exc, backoffs >>
scraper == << posts, commenter_activity, clock, pc, year, skip_existing, slugs, i,
              fields, attempt, commenter_counts, unique_commenters,
              outcome, page, comments_log, comments_exc, backoffs, paced, gets,
              resumed, listing, top_commenters, writers, db_lock >>
discovery == << matches, wanted, listed >>
aggregation == << comment_list, tally >>
monitor == << w_pc, hour, current_url, latest_url, new_count, state_file,
              notifications, requests, slept >>
aside == << discovery, aggregation, monitor, top_commenters, writers, db_lock >>
vars == << scraper, discovery, aggregation, monitor >>

NoPage == [status |-> -1, payload |-> "unread"]
NoGets == [sitemap |-> 0, post |-> 0, comments |-> 0]
NoListing == -1
NotApplied == [applied |-> FALSE]
NoFile == [exists |-> FALSE, lines |-> << >>]

Ended == {"idle", "done", "aborted", "crashed", "killed"}

\* What the observer notes of an answer to the post-page request.
Seen(r) ==
    [status |-> r.status,
     payload |-> IF r.kind = "exception" THEN "unread"
                 ELSE IF ~r.body.match THEN "absent"
                 ELSE IF ~r.body.decodes THEN "undecodable"
                 ELSE "decoded"]

ResetLocals ==
    /\ fields' = NoFields
    /\ attempt' = 0
    /\ commenter_counts' = EmptyDict
    /\ unique_commenters' = 0

ResetObserved ==
    /\ page' = NoPage
    /\ comments_log' = << >>
    /\ comments_exc' = ""
    /\ backoffs' = << >>

\* No scrape_year process yet.
ProcessInit ==
    /\ clock = 0
    /\ pc = "idle"
    /\ year = 2025
    /\ skip_existing = TRUE
    /\ slugs = << >>
    /\ i = 1
    /\ fields = NoFields
    /\ attempt = 0
    /\ commenter_counts = EmptyDict
    /\ unique_commenters = 0
    /\ outcome = << >>
    /\ page = NoPage
    /\ comments_log = << >>
    /\ comments_exc = ""
    /\ backoffs = << >>
    /\ paced = 0
    /\ gets = NoGets
    /\ resumed = FALSE
    /\ listing = NoListing
    /\ top_commenters = JNull

\* No process in save_post.
WritersIdle ==
    /\ writers = << >>
    /\ db_lock = 0

ScraperInit ==
    /\ posts = EmptyBag
    /\ commenter_activity = EmptyBag
    /\ ProcessInit
    /\ WritersIdle

\* The parts of the program that a specification leaves out stand still.
DiscoveryIdle ==
    /\ matches = << >>
    /\ wanted = 2025
    /\ listed = NotApplied

AggregationIdle ==
    /\ comment_list = JNull
    /\ tally = NotApplied

MonitorIdle ==
    /\ w_pc = "off"
    /\ hour = 0
    /\ current_url = JNull
    /\ latest_url = JNull
    /\ new_count = JNull
    /\ state_file = NoFile
    /\ notifications = << >>
    /\ requests = << >>
    /\ slept = 0

Init == ScraperInit /\ DiscoveryIdle /\ AggregationIdle /\ MonitorIdle

(***************************************************************************)
(* scrape_year(year, skip_existing=sk) is started: init_db creates the     *)
(* tables if they are missing and leaves their rows alone.                 *)
(***************************************************************************)
StartRun(y, sk) ==
    /\ pc \in Ended
    /\ clock < MaxRuns
    /\ clock' = clock + 1
    /\ pc' = "discover"
    /\ year' = y
    /\ skip_existing' = sk
    /\ slugs' = << >>
    /\ i' = 1
    /\ outcome' = << >>
    /\ paced' = 0
    /\ gets' = NoGets
    /\ resumed' = (pc = "killed" /\ sk)
    /\ listing' = NoListing
    /\ ResetLocals
    /\ ResetObserved
    /\ UNCHANGED store
    /\ UNCHANGED aside

\* get_all_dbd_slugs without r.raise_for_status(): the text of an error
\* answer is searched for slugs like any other.
Discover_NoRaiseForStatus(r) ==
    /\ pc = "discover"
    /\ gets' = [gets EXCEPT !.sitemap = @ + 1]
    /\ listing' = r.status
    /\ IF r.kind = "exception"
       THEN /\ pc' = "aborted"
            /\ UNCHANGED << slugs, outcome >>
       ELSE /\ slugs' = get_dbd_slugs_for_year(r.body, year)
            /\ outcome' = [k \in 1..Len(slugs') |-> "Pending"]
            /\ pc' = "loop"
    /\ UNCHANGED << store, clock, args, i, locals, observed, paced, resumed >>
    /\ UNCHANGED aside

(***************************************************************************)
(* get_dbd_slugs_for_year: the sitemap request.  A failure is not caught   *)
(* by scrape_year and ends the run.                                        *)
(***************************************************************************)
Discover(r) ==
    /\ pc = "discover"
    /\ gets' = [gets EXCEPT !.sitemap = @ + 1]
    /\ listing' = r.status
    /\ IF r.kind = "exception" \/ RaisesForStatus(r.status)
       THEN /\ pc' = "aborted"
            /\ UNCHANGED << slugs, outcome >>
       ELSE /\ slugs' = get_dbd_slugs_for_year(r.body, year)
            /\ outcome' = [k \in 1..Len(slugs') |-> "Pending"]
            /\ pc' = "loop"
    /\ UNCHANGED << store, clock, args, i, locals, observed, paced, resumed >>
    /\ UNCHANGED aside

\* The for loop is exhausted.
LoopDone ==
    /\ pc = "loop"
    /\ i > Len(slugs)
    /\ pc' = "done"
    /\ paced' = 0
    /\ UNCHANGED << store, clock, args, slugs, i, locals, observed, outcome, gets,
                    resumed, listing >>
    /\ UNCHANGED aside

\* skip_existing and is_post_scraped(slug): continue
LoopSkip ==
    /\ pc = "loop"
    /\ i <= Len(slugs)
    /\ skip_existing /\ is_post_scraped(slugs[i])
    /\ outcome' = [outcome EXCEPT ![i] = "Skipped"]
    /\ i' = i + 1
    /\ paced' = 0
    /\ UNCHANGED << store, clock, pc, args, slugs, locals, observed, gets, resumed, listing >>
    /\ UNCHANGED aside

\* The slug is handed to scrape_post.
LoopScrape ==
    /\ pc = "loop"
    /\ i <= Len(slugs)
    /\ ~(skip_existing /\ is_post_scraped(slugs[i]))
    /\ pc' = "fetch_post"
    /\ paced' = 0
    /\ UNCHANGED << store, clock, args, slugs, i, locals, observed, outcome, gets,
                    resumed, listing >>
    /\ UNCHANGED aside

(***************************************************************************)
(* scrape_post up to the comments stage: the post-page request, the        *)
(* payload and its fields.                                                 *)
(***************************************************************************)
\* scrape_year without "if post:": save_post is called with whatever
\* scrape_post has returned.
FetchPost_SaveWithoutPost(r) ==
    /\ pc = "fetch_post"
    /\ gets' = [gets EXCEPT !.post = @ + 1]
    /\ page' = Seen(r)
    /\ IF r.kind = "exception" \/ RaisesForStatus(r.status)
       THEN /\ pc' = "save"
            /\ outcome' = [outcome EXCEPT ![i] = "Failed"]
            /\ UNCHANGED fields
       ELSE LET read == ReadPost(r.body) IN
            /\ pc' = CASE read.result = "ok" -> "comments"
                       [] read.result = "none" -> "save"
                       [] OTHER -> "crashed"
            /\ outcome' = [outcome EXCEPT ![i] =
                              IF read.result = "ok" THEN "Extracted" ELSE "Failed"]
            /\ fields' = read.fields
    /\ UNCHANGED << store, clock, args, slugs, i, attempt, commenter_counts,
                    unique_commenters, comments_log, comments_exc, backoffs, paced,
                    resumed, listing >>
    /\ UNCHANGED aside

FetchPost(r) ==
    /\ pc = "fetch_post"
    /\ gets' = [gets EXCEPT !.post = @ + 1]
    /\ page' = Seen(r)
    /\ IF r.kind = "exception" \/ RaisesForStatus(r.status)
       THEN /\ pc' = "sleep"
            /\ outcome' = [outcome EXCEPT ![i] = "Failed"]
            /\ UNCHANGED fields
       ELSE LET read == ReadPost(r.body) IN
            /\ pc' = CASE read.result = "ok" -> "comments"
                       [] read.result = "none" -> "sleep"
                       [] OTHER -> "crashed"
            /\ outcome' = [outcome EXCEPT ![i] =
                              IF read.result = "ok" THEN "Extracted" ELSE "Failed"]
            /\ fields' = read.fields
    /\ UNCHANGED << store, clock, args, slugs, i, attempt, commenter_counts,
                    unique_commenters, comments_log, comments_exc, backoffs, paced,
                    resumed, listing >>
    /\ UNCHANGED aside

\* The retry loop with "if status_code != 200" in place of "== 429": every
\* bad status is waited out and asked again.
FetchComments_RetryAnyStatus(r) ==
    /\ pc = "comments"
    /\ gets' = [gets EXCEPT !.comments = @ + 1]
    /\ comments_log' = Append(comments_log, r.status)
    /\ IF r.kind = "exception"
       THEN /\ comments_exc' = "ConnectionError"
            /\ pc' = "save"
            /\ UNCHANGED << commenter_counts, unique_commenters, outcome >>
       ELSE IF r.status # 200
       THEN /\ pc' = "backoff"
            /\ UNCHANGED << comments_exc, commenter_counts, unique_commenters,
                            outcome >>
       ELSE LET read == ReadComments(r.body) IN
            /\ commenter_counts' = read.counts
            /\ unique_commenters' = read.unique
            /\ comments_exc' = read.exc
            /\ outcome' = [outcome EXCEPT ![i] =
                              IF read.exc = "" THEN "CommentsFetched" ELSE @]
            /\ pc' = "save"
    /\ UNCHANGED << store, clock, args, slugs, i, fields, attempt, page, backoffs,
                    paced, resumed, listing >>
    /\ UNCHANGED aside

(***************************************************************************)
(* One pass of the retry loop: the comments request.  On 429 the process   *)
(* goes to sleep; any other answer ends the loop, and with a good status   *)
(* the payload is read and counted.                                        *)
(***************************************************************************)
FetchComments(r) ==
    /\ pc = "comments"
    /\ gets' = [gets EXCEPT !.comments = @ + 1]
    /\ comments_log' = Append(comments_log, r.status)
    /\ IF r.kind = "exception"
       THEN /\ comments_exc' = "ConnectionError"
            /\ pc' = "save"
            /\ UNCHANGED << commenter_counts, unique_commenters, outcome >>
       ELSE IF r.status = 429
       THEN /\ pc' = "backoff"
            /\ UNCHANGED << comments_exc, commenter_counts, unique_commenters,
                            outcome >>
       ELSE IF RaisesForStatus(r.status)
       THEN /\ comments_exc' = "HTTPError"
            /\ pc' = "save"
            /\ UNCHANGED << commenter_counts, unique_commenters, outcome >>
       ELSE LET read == ReadComments(r.body) IN
            /\ commenter_counts' = read.counts
            /\ unique_commenters' = read.unique
            /\ comments_exc' = read.exc
            /\ outcome' = [outcome EXCEPT ![i] =
                              IF read.exc = "" THEN "CommentsFetched" ELSE @]
            /\ pc' = "save"
    /\ UNCHANGED << store, clock, args, slugs, i, fields, attempt, page, backoffs,
                    paced, resumed, listing >>
    /\ UNCHANGED aside

\* The retry loop with the sleep skipped on the last pass: after the third
\* 429 the loop ends at once.
Backoff_NoSleepAfterLast ==
    /\ pc = "backoff"
    /\ backoffs' = IF attempt + 1 < MaxAttempts
                   THEN Append(backoffs, wait_time(attempt))
                   ELSE backoffs
    /\ attempt' = attempt + 1
    /\ IF attempt + 1 < MaxAttempts
       THEN /\ pc' = "comments"
            /\ UNCHANGED comments_exc
       ELSE /\ pc' = "save"
            /\ comments_exc' = "RateLimited"
    /\ UNCHANGED << store, clock, args, slugs, i, fields, commenter_counts,
                    unique_commenters, outcome, page, comments_log, paced, gets,
                    resumed, listing >>
    /\ UNCHANGED aside

\* time.sleep(wait_time); continue.  After the last pass the else branch of
\* the for loop raises, and the handler of the comments stage catches it.
Backoff ==
    /\ pc = "backoff"
    /\ backoffs' = Append(backoffs, wait_time(attempt))
    /\ attempt' = attempt + 1
    /\ IF attempt + 1 < MaxAttempts
       THEN /\ pc' = "comments"
            /\ UNCHANGED comments_exc
       ELSE /\ pc' = "save"
            /\ comments_exc' = "RateLimited"
    /\ UNCHANGED << store, clock, args, slugs, i, fields, commenter_counts,
                    unique_commenters, outcome, page, comments_log, paced, gets,
                    resumed, listing >>
    /\ UNCHANGED aside

(***************************************************************************)
(* scrape_post has returned a post: save_post(post), one transaction.      *)
(***************************************************************************)
SavePost ==
    /\ pc = "save"
    /\ LET post == DBDPost(slugs[i], fields, unique_commenters, commenter_counts)
           saved == save_post(post, posts, commenter_activity, clock)
       IN /\ posts' = saved.posts
          /\ commenter_activity' = saved.activity
          /\ pc' = IF saved.exc = "" THEN "sleep" ELSE "crashed"
          /\ outcome' = [outcome EXCEPT ![i] =
                            IF saved.exc = "" THEN "Persisted" ELSE "Failed"]
    /\ UNCHANGED << clock, args, slugs, i, locals, observed, paced, gets, resumed, listing >>
    /\ UNCHANGED aside

\* time.sleep(delay) moved under "if post:"
SleepDelay_OnlyAfterSave ==
    /\ pc = "sleep"
    /\ paced' = IF outcome[i] = "Persisted" THEN Delay ELSE 0
    /\ i' = i + 1
    /\ pc' = "loop"
    /\ gets' = [gets EXCEPT !.post = 0, !.comments = 0]
    /\ ResetLocals
    /\ ResetObserved
    /\ UNCHANGED << store, clock, args, slugs, outcome, resumed, listing >>
    /\ UNCHANGED aside

\* time.sleep(delay), and on to the next slug
SleepDelay ==
    /\ pc = "sleep"
    /\ paced' = Delay
    /\ i' = i + 1
    /\ pc' = "loop"
    /\ gets' = [gets EXCEPT !.post = 0, !.comments = 0]
    /\ ResetLocals
    /\ ResetObserved
    /\ UNCHANGED << store, clock, args, slugs, outcome, resumed, listing >>
    /\ UNCHANGED aside

(***************************************************************************)
(* The process is killed.  Nothing of it survives but the committed rows.  *)
(***************************************************************************)
Kill ==
    /\ pc \notin Ended
    /\ pc' = "killed"
    /\ slugs' = << >>
    /\ i' = 1
    /\ outcome' = << >>
    /\ paced' = 0
    /\ gets' = NoGets
    /\ listing' = NoListing
    /\ ResetLocals
    /\ ResetObserved
    /\ UNCHANGED << store, clock, args, resumed >>
    /\ UNCHANGED aside

Next ==
    \/ \E y \in Years, sk \in BOOLEAN : StartRun(y, sk)
    \/ \E r \in Responses(Sitemaps) : Discover(r)
    \/ LoopDone
    \/ LoopSkip
    \/ LoopScrape
    \/ \E r \in Responses(PostBodies) : FetchPost(r)
    \/ \E r \in Responses(CommentsBodies) : FetchComments(r)
    \/ Backoff
    \/ SavePost
    \/ SleepDelay
    \/ Kill

Spec == Init /\ [][Next]_vars

(***************************************************************************)
(* The command line (main of scraper.py).  One invocation from a database  *)
(* that is empty or holds the row of an earlier run.                       *)
(***************************************************************************)
\* --top-commenters N as argparse hands it over: None without the option
TopArgs == {JNull, JNum(0), JNum(1), JNum(20), JNum(-1)}

\* "if args.top_commenters:" -- None and 0 are false
Truthy(v) == v # JNull /\ v.val # 0

EarlierRow ==
    save_post(DBDPost(SlugFoo, ReadPost(PageFull).fields, 0, EmptyDict),
              EmptyBag, EmptyBag, 0).posts

InitCli ==
    /\ ProcessInit /\ WritersIdle
    /\ DiscoveryIdle /\ AggregationIdle /\ MonitorIdle
    /\ posts \in {EmptyBag, EarlierRow}
    /\ commenter_activity = EmptyBag

\* main(): the report and return, or scrape_year(year, delay=args.delay)
CliMain(n, y) ==
    /\ pc = "idle"
    /\ clock = 0
    /\ top_commenters' = n
    /\ IF Truthy(n)
       THEN /\ pc' = "done"
            /\ UNCHANGED << clock, args, slugs, i, outcome, paced, gets, resumed,
                            listing, locals, observed >>
       ELSE /\ clock' = clock + 1
            /\ pc' = "discover"
            /\ year' = y
            /\ skip_existing' = TRUE
            /\ slugs' = << >>
            /\ i' = 1
            /\ outcome' = << >>
            /\ paced' = 0
            /\ gets' = NoGets
            /\ resumed' = FALSE
            /\ listing' = NoListing
            /\ ResetLocals
            /\ ResetObserved
    /\ UNCHANGED << store, writers, db_lock, discovery, aggregation, monitor >>

NextCli ==
    \/ \E n \in TopArgs, y \in Years : CliMain(n, y)
    \/ \E r \in Responses(Sitemaps) : Discover(r)
    \/ LoopDone
    \/ LoopSkip
    \/ LoopScrape
    \/ \E r \in Responses(PostBodies) : FetchPost(r)
    \/ \E r \in Responses(CommentsBodies) : FetchComments(r)
    \/ Backoff
    \/ SavePost
    \/ SleepDelay
    \/ Kill

SpecCli == InitCli /\ [][NextCli]_vars

(***************************************************************************)
(* Two scrape_year processes in save_post at the same time, each for its   *)
(* own slug.  sqlite3.connect(DB_PATH) opens the database with the         *)
(* defaults of the library: the first INSERT of a connection begins a      *)
(* transaction and takes the write lock of the database file; while        *)
(* another connection holds it the INSERT waits, and after the timeout of  *)
(* the connection (5 seconds) it raises OperationalError "database is      *)
(* locked".  What a transaction has written is seen by others from its     *)
(* commit on.                                                              *)
(***************************************************************************)
Writers == {1, 2}
WriterSlug(w) == IF w = 1 THEN SlugFoo ELSE SlugBar

\* commenter_counts of the posts that are saved
CountsAB == (JStr("a") :> 2) @@ (JStr("b") :> 1)
CountsA == (JStr("a") :> 1)
WriterPosts(w) ==
    {DBDPost(WriterSlug(w), ReadPost(body).fields, Cardinality(DOMAIN counts), counts) :
        body \in {PageEmpty, PageFull}, counts \in {EmptyDict, CountsA, CountsAB}}

\* The write lock is free for every connection at any time.
LockFree_Always(w) == TRUE

\* The write lock can be taken by the connection of w.
LockFree(w) == db_lock \in {0, w}

run == << clock, pc, args, slugs, i, locals, outcome, observed, paced, gets,
          resumed, listing, top_commenters >>

InitWriters ==
    /\ posts = EmptyBag
    /\ commenter_activity = EmptyBag
    /\ ProcessInit
    /\ DiscoveryIdle /\ AggregationIdle /\ MonitorIdle
    /\ writers \in {[w \in Writers |->
                        [pc |-> "connect", post |-> IF w = 1 THEN p1 ELSE p2,
                         posts_t |-> EmptyBag, activity_t |-> EmptyBag,
                         todo |-> {}]] :
                    p1 \in WriterPosts(1), p2 \in WriterPosts(2)}
    /\ db_lock = 0

\* The INSERT OR REPLACE INTO posts of w: the transaction begins.
InsertPost(w) ==
    /\ writers[w].pc = "connect"
    /\ LockFree(w)
    /\ db_lock' = w
    /\ LET post == writers[w].post IN
       writers' = [writers EXCEPT
          ![w].pc = "activity",
          ![w].posts_t = InsertOrReplacePost(posts,
                            [slug |-> post.slug, title |-> post.title,
                             post_date |-> post.post_date,
                             comment_count |-> post.comment_count,
                             unique_commenters |-> post.unique_commenters,
                             cover_image |-> post.cover_image,
                             poll_id |-> post.poll_id,
                             poll_total_votes |-> post.poll_total_votes,
                             scraped_at |-> w]),
          ![w].activity_t = commenter_activity,
          ![w].todo = DOMAIN post.commenter_counts]
    /\ UNCHANGED << store, run, discovery, aggregation, monitor >>

\* The INSERT of w has waited for the lock as long as the timeout allows:
\* save_post raises and nothing of w is written.
LockTimeout(w) ==
    /\ writers[w].pc = "connect"
    /\ ~LockFree(w)
    /\ writers' = [writers EXCEPT ![w].pc = "locked"]
    /\ UNCHANGED << db_lock, store, run, discovery, aggregation, monitor >>

\* One pass of the loop over commenter_counts.items()
InsertActivity(w, username) ==
    /\ writers[w].pc = "activity"
    /\ username \in writers[w].todo
    /\ LET post == writers[w].post IN
       writers' = [writers EXCEPT
          ![w].activity_t = InsertOrReplaceActivity(@,
                               [slug |-> post.slug, username |-> username,
                                comment_count |-> post.commenter_counts[username]]),
          ![w].todo = @ \ {username}]
    /\ UNCHANGED << db_lock, store, run, discovery, aggregation, monitor >>

\* conn.commit(); conn.close()
Commit(w) ==
    /\ writers[w].pc = "activity"
    /\ writers[w].todo = {}
    /\ posts' = writers[w].posts_t
    /\ commenter_activity' = writers[w].activity_t
    /\ db_lock' = IF db_lock = w THEN 0 ELSE db_lock
    /\ writers' = [writers EXCEPT ![w].pc = "closed"]
    /\ UNCHANGED << run, discovery, aggregation, monitor >>

NextWriters ==
    \E w \in Writers :
       \/ InsertPost(w)
       \/ LockTimeout(w)
       \/ \E username \in DOMAIN writers[w].post.commenter_counts :
             InsertActivity(w, username)
       \/ Commit(w)

SpecWriters == InitWriters /\ [][NextWriters]_vars

(***************************************************************************)
(* The slug discovery on its own.  The sitemap text is taken for the list  *)
(* of its matches, of at most MaxMatches entries in any order and with     *)
(* repetitions; the two functions are applied to it.                       *)
(***************************************************************************)
MaxMatches == 3

DiscoverySlugs == {SlugFoo, SlugBar, SlugRecap}

MatchLists == UNION {[1..n -> DiscoverySlugs] : n \in 0..MaxMatches}

InitDiscovery ==
    /\ ScraperInit /\ AggregationIdle /\ MonitorIdle
    /\ matches \in MatchLists
    /\ wanted \in Years
    /\ listed = NotApplied

ListSlugs ==
    /\ ~listed.applied
    /\ listed' = [applied |-> TRUE,
                  all |-> get_all_dbd_slugs(matches),
                  for_year |-> get_dbd_slugs_for_year(matches, wanted)]
    /\ UNCHANGED << matches, wanted, scraper, aggregation, monitor >>

NextDiscovery == ListSlugs

SpecDiscovery == InitDiscovery /\ [][NextDiscovery]_vars

(***************************************************************************)
(* The comment aggregation on its own.  A well-formed comment list is a    *)
(* list of dicts, each with a string under 'name' or no such key, and with *)
(* a non-empty well-formed list under 'children' or no such key.  The      *)
(* lists of at most MaxNodes nodes in all are the inputs.                  *)
(***************************************************************************)
MaxNodes == 3

Authors == {JStr("a"), JStr("b"), JStr("Unknown")}
Nameless == JNull
NameChoices == Authors \cup {Nameless}

WellFormedNode(name, children) ==
    JObj((IF name = Nameless THEN {} ELSE {<< "name", name >>})
         \cup (IF children = << >> THEN {}
               ELSE {<< "children", JArr(children) >>}))

\* The well-formed lists with n nodes in all: the first node has k - 1 nodes
\* below it, and n - k nodes follow it.
RECURSIVE WellFormedLists(_)
WellFormedLists(n) ==
    IF n = 0 THEN {<< >>}
    ELSE UNION {LET below == WellFormedLists(k - 1)
                    after == WellFormedLists(n - k)
                IN {<< WellFormedNode(name, children) >> \o rest :
                       name \in NameChoices, children \in below, rest \in after} :
                k \in 1..n}

InitAggregation ==
    /\ ScraperInit /\ DiscoveryIdle /\ MonitorIdle
    /\ comment_list \in {JArr(nodes) :
                            nodes \in UNION {WellFormedLists(n) : n \in 0..MaxNodes}}
    /\ tally = NotApplied

\* The comments stage of scrape_post on a payload with this list under
\* 'initialComments'.
Aggregate ==
    /\ ~tally.applied
    /\ LET read == ReadComments(Tree(comment_list.val))
       IN tally' = [applied |-> TRUE, counts |-> read.counts,
                    unique |-> read.unique, exc |-> read.exc]
    /\ UNCHANGED << comment_list, scraper, discovery, monitor >>

NextAggregation == Aggregate

SpecAggregation == InitAggregation /\ [][NextAggregation]_vars

(***************************************************************************)
(* The monitor (monitor.py, utils.py, config.py).  A URL is the sequence   *)
(* of its segments, None is JNull, a str or int value is JStr or JNum.     *)
(* The state file holds two lines of text: the URL and the count in        *)
(* decimal digits.                                                         *)
(***************************************************************************)
MaxCount == 10

CHECK_INTERVAL == 300
ACTIVE_HOUR_START == 6
ACTIVE_HOUR_END == 18

BASE_URL == << "https://writeforcalifornia.com" >>
ARCHIVE_URL == BASE_URL \o << "archive" >>

\* datetime.now().hour
Hours == 0..23

\* ACTIVE_HOUR_START <= hour <= ACTIVE_HOUR_END
is_active_hours_EndInclusive(h) == ACTIVE_HOUR_START <= h /\ h <= ACTIVE_HOUR_END

\* is_active_hours
is_active_hours(h) == ACTIVE_HOUR_START <= h /\ h < ACTIVE_HOUR_END

\* str(n) and int(text) for the count line of the state file and for the
\* digits the pattern finds
RECURSIVE Decimal(_)
Decimal(n) == IF n < 10 THEN << n >> ELSE Decimal(n \div 10) \o << n % 10 >>

RECURSIVE ParseInt(_)
ParseInt(digits) ==
    IF Len(digits) = 1 THEN digits[1]
    ELSE 10 * ParseInt(SubSeq(digits, 1, Len(digits) - 1)) + digits[Len(digits)]

\* The archive pages: what the pattern /p/(dbd-..-..-....-[^"']+) finds, in
\* document order, the newest post first.
LatestFoo == "dbd-01-15-2025-foo"
LatestBar == "dbd-01-16-2025-bar"
Archives == {<< >>, << LatestFoo >>, << LatestBar, LatestFoo >>}

\* The comments pages: the digits in front of "Comments", or no such text.
NoCount == << >>
CountPages == {NoCount} \cup {Decimal(n) : n \in 0..MaxCount}

\* get_latest_dbd_url on the answer to the archive request
get_latest_dbd_url(r) ==
    IF r.kind = "exception" \/ RaisesForStatus(r.status) THEN JNull
    ELSE IF r.body # << >> THEN JStr(BASE_URL \o << "p", r.body[1] >>)
    ELSE JNull

\* The URL that get_comment_count requests
comments_url(url) ==
    IF url[Len(url)] = "comments" THEN url ELSE url \o << "comments" >>

\* get_comment_count on the answer to the comments request
get_comment_count(r) ==
    IF r.kind = "exception" \/ RaisesForStatus(r.status) THEN JNull
    ELSE IF r.body # NoCount THEN JNum(ParseInt(r.body))
    ELSE JNull

\* read_state: (stored_url, count), or ("", 0) without a file of two lines
read_state(file) ==
    IF file.exists /\ Len(file.lines) >= 2
    THEN [url |-> JStr(file.lines[1]), count |-> ParseInt(file.lines[2])]
    ELSE [url |-> JStr(<< >>), count |-> 0]

\* save_state: the file after write_text(f"{url}\n{count}")
save_state(url, count) == [exists |-> TRUE, lines |-> << url.val, Decimal(count) >>]

\* send_notification("New DBD Post", "New daily post available", url=...)
NewPostNote(url) ==
    [title |-> "New DBD Post", diff |-> 0, total |-> 0, url |-> url]

\* send_notification("Substack Update", f"{diff} new comment(s) on DBD (now
\* {new_count} total)", url=...)
UpdateNote(diff, total, url) ==
    [title |-> "Substack Update", diff |-> diff, total |-> total, url |-> url]

\* The notification of a new target, sent whatever was watched before
NewPostNotes_Always(current, latest) == << NewPostNote(latest) >>

\* "if current_url is not None: send_notification(...)" at the change of the
\* target
NewPostNotes(current, latest) ==
    IF current # JNull THEN << NewPostNote(latest) >> ELSE << >>

\* The notification of new comments without "if old_count > 0"
UpdateNotes_FromZero(old_count, count, url) ==
    << UpdateNote(count - old_count, count, url) >>

\* "if old_count > 0: send_notification(...)" under "if new_count > old_count"
UpdateNotes(old_count, count, url) ==
    IF old_count > 0 THEN << UpdateNote(count - old_count, count, url) >>
    ELSE << >>

\* save_state(current_url, new_count) whatever the stored count
PersistCount_Always(file, url, old_count, count) == save_state(url, count)

\* save_state(current_url, new_count) under "if new_count != old_count"
PersistCount_OnChange(file, url, old_count, count) ==
    IF count # old_count THEN save_state(url, count) ELSE file

\* The state file after the comparison of the counts: written under
\* "if new_count > old_count" only
PersistCount(file, url, old_count, count) ==
    IF count > old_count THEN save_state(url, count) ELSE file

MonitorLocalsReset ==
    /\ latest_url' = JNull
    /\ new_count' = JNull
    /\ notifications' = << >>
    /\ requests' = << >>
    /\ slept' = 0

\* The process is launched; the state file of an earlier process is there or
\* not.
InitMonitor ==
    /\ ScraperInit /\ DiscoveryIdle /\ AggregationIdle
    /\ w_pc = "start"
    /\ hour = 0
    /\ current_url = JNull
    /\ latest_url = JNull
    /\ new_count = JNull
    /\ state_file = NoFile
    /\ notifications = << >>
    /\ requests = << >>
    /\ slept = 0

\* main() up to the loop: current_url = None
Main ==
    /\ w_pc = "start"
    /\ w_pc' = "top"
    /\ current_url' = JNull
    /\ UNCHANGED << hour, latest_url, new_count, state_file, notifications,
                    requests, slept >>
    /\ UNCHANGED << scraper, discovery, aggregation >>

\* The head of the loop: is_active_hours() reads the hour h.
CycleStart(h) ==
    /\ w_pc = "top"
    /\ hour' = h
    /\ MonitorLocalsReset
    /\ w_pc' = IF is_active_hours(h) THEN "resolve" ELSE "sleep"
    /\ UNCHANGED << current_url, state_file >>
    /\ UNCHANGED << scraper, discovery, aggregation >>

\* get_latest_dbd_url without its "except requests.RequestException": a
\* failed archive request ends main() with the exception.
ResolveLatest_Uncaught(r) ==
    /\ w_pc = "resolve"
    /\ requests' = Append(requests, ARCHIVE_URL)
    /\ LET latest == get_latest_dbd_url(r) IN
       /\ latest_url' = latest
       /\ IF r.kind = "exception" \/ RaisesForStatus(r.status)
          THEN /\ w_pc' = "stopped"
               /\ UNCHANGED << current_url, state_file, notifications >>
          ELSE IF latest = JNull
          THEN /\ w_pc' = "sleep"
               /\ UNCHANGED << current_url, state_file, notifications >>
          ELSE /\ w_pc' = "count"
               /\ IF latest # current_url
                  THEN /\ notifications' =
                             notifications \o NewPostNotes(current_url, latest)
                       /\ current_url' = latest
                       /\ state_file' = save_state(latest, 0)
                  ELSE UNCHANGED << current_url, state_file, notifications >>
    /\ UNCHANGED << hour, new_count, slept >>
    /\ UNCHANGED << scraper, discovery, aggregation >>

\* get_latest_dbd_url() and the change of the target.
ResolveLatest(r) ==
    /\ w_pc = "resolve"
    /\ requests' = Append(requests, ARCHIVE_URL)
    /\ LET latest == get_latest_dbd_url(r) IN
       /\ latest_url' = latest
       /\ IF latest = JNull
          THEN /\ w_pc' = "sleep"
               /\ UNCHANGED << current_url, state_file, notifications >>
          ELSE /\ w_pc' = "count"
               /\ IF latest # current_url
                  THEN /\ notifications' =
                             notifications \o NewPostNotes(current_url, latest)
                       /\ current_url' = latest
                       /\ state_file' = save_state(latest, 0)
                  ELSE UNCHANGED << current_url, state_file, notifications >>
    /\ UNCHANGED << hour, new_count, slept >>
    /\ UNCHANGED << scraper, discovery, aggregation >>

\* get_comment_count(current_url), read_state() and the comparison.
FetchCount(r) ==
    /\ w_pc = "count"
    /\ requests' = Append(requests, comments_url(current_url.val))
    /\ LET count == get_comment_count(r) IN
       /\ new_count' = count
       /\ IF count = JNull
          THEN UNCHANGED << state_file, notifications >>
          ELSE LET stored == read_state(state_file)
                   old_count == IF stored.url # current_url THEN 0 ELSE stored.count
               IN /\ notifications' =
                        IF count.val > old_count
                        THEN notifications \o
                                UpdateNotes(old_count, count.val, current_url)
                        ELSE notifications
                  /\ state_file' =
                        PersistCount(state_file, current_url, old_count, count.val)
    /\ w_pc' = "sleep"
    /\ UNCHANGED << hour, current_url, latest_url, slept >>
    /\ UNCHANGED << scraper, discovery, aggregation >>

\* time.sleep(CHECK_INTERVAL), and back to the head of the loop
Sleep ==
    /\ w_pc = "sleep"
    /\ slept' = CHECK_INTERVAL
    /\ w_pc' = "top"
    /\ UNCHANGED << hour, current_url, latest_url, new_count, state_file,
                    notifications, requests >>
    /\ UNCHANGED << scraper, discovery, aggregation >>

\* The process is stopped and launched again.  The state file stays.
Restart ==
    /\ w_pc # "start"
    /\ w_pc' = "start"
    /\ current_url' = JNull
    /\ MonitorLocalsReset
    /\ UNCHANGED << hour, state_file >>
    /\ UNCHANGED << scraper, discovery, aggregation >>

NextMonitor ==
    \/ Main
    \/ \E h \in Hours : CycleStart(h)
    \/ \E r \in Responses(Archives) : ResolveLatest(r)
    \/ \E r \in Responses(CountPages) : FetchCount(r)
    \/ Sleep
    \/ Restart

SpecMonitor == InitMonitor /\ [][NextMonitor]_vars

(***************************************************************************)
(* Properties.                                                             *)
(***************************************************************************)
\* A posts row of the slug written by the current run.
WrittenNow(slug) == \E r \in Rows(posts) : r.slug = slug /\ r.scraped_at = clock

NonePending == \A k \in 1..Len(slugs) : outcome[k] # "Pending"

RECURSIVE SumSeq(_)
SumSeq(q) == IF q = << >> THEN 0 ELSE Head(q) + SumSeq(Tail(q))

\* SELECT SUM(comment_count) FROM commenter_activity WHERE slug = ?
RECURSIVE SumRows(_, _)
SumRows(table, rows) ==
    IF rows = {} THEN 0
    ELSE LET r == CHOOSE x \in rows : TRUE
         IN r.comment_count * table[r] + SumRows(table, rows \ {r})

ActivitySum(table, slug) == SumRows(table, {r \in Rows(table) : r.slug = slug})

\* C1: a failure while one slug is processed (post-page fetch error, missing
\* or undecodable payload, failure while reading the payload's fields) never
\* aborts the batch: when the run has ended, no slug of the list is left
\* unprocessed.
C1_LaterSlugsProcessed ==
    /\ pc = "done" => NonePending
    /\ (pc = "crashed" /\ gets.comments = 0) => NonePending

C3_PersistedUnlessFetchFailed ==
    pc \in {"sleep", "crashed"} => (WrittenNow(slugs[i]) <=> page.status = 200)

\* C3 as amended: a slug that is not skipped ends Persisted, with its posts
\* row written in this run, exactly when the post-page fetch succeeded, the
\* payload was found and decoded, and neither reading its fields nor storing
\* them raised (either of which ends the run).
C3_PersistedIffScraped ==
    pc \in {"sleep", "crashed"}
        => /\ WrittenNow(slugs[i])
                <=> (pc = "sleep" /\ page.status = 200 /\ page.payload = "decoded")
           /\ WrittenNow(slugs[i]) <=> outcome[i] = "Persisted"
           /\ pc = "crashed" => page.status = 200 /\ page.payload = "decoded"

C3_Witness ==
    /\ pc = "sleep" /\ page.status = 200 /\ page.payload = "undecodable"
    /\ outcome[i] = "Failed"
    /\ \E k \in 1..Len(slugs) : outcome[k] = "Persisted"

\* C4: a failure in the comments stage is caught and the post is persisted
\* with unique_commenters = 0 and an empty author table: commenter_counts is
\* empty, and save_post writes no commenter_activity row.
C4_CommentsFailureSavesNoAuthors ==
    [][(pc = "save" /\ comments_exc # "" /\ Storable(fields.title))
          => \/ pc' = "killed"
             \/ /\ pc' = "sleep"
                /\ \E r \in Rows(posts') :
                       r.slug = slugs[i] /\ r.scraped_at = clock
                                         /\ r.unique_commenters = 0
                /\ commenter_counts = EmptyDict
                /\ commenter_activity' = commenter_activity]_vars

\* C5 as claimed: scrape_year sleeps the delay after every slug before it
\* moves to the next, whatever the outcome of the slug.
C5_SleepAfterEverySlug == [][i' = i + 1 => paced' = Delay]_vars

\* C5 as amended: scrape_year sleeps the delay after every slug for which
\* scrape_post returned (Persisted, or Failed with no post), and moves on
\* without sleeping from a Skipped slug; a run that an exception ends does
\* not sleep after the slug that raised.
C5_SleepUnlessSkipped ==
    [][/\ i' = i + 1
          => IF outcome'[i] = "Skipped"
             THEN pc = "loop" /\ paced' = 0
             ELSE /\ pc = "sleep" /\ paced' = Delay
                  /\ outcome[i] \in {"Persisted", "Failed"}
       /\ pc' = "crashed" => paced' = 0 /\ i' = i]_vars

C5_Witness ==
    /\ pc = "loop" /\ i = 3
    /\ outcome[1] = "Failed" /\ outcome[2] = "Skipped"
    /\ paced = 0

\* C6: with skip_existing, a slug is Skipped exactly when a posts row with
\* that slug exists, whatever commenter_activity holds for it, and skipping
\* it issues no request and writes to neither table.
C6_SkippedIffPostsRow ==
    [][(/\ pc = "loop" /\ pc' \in {"loop", "fetch_post"}
        /\ i <= Len(slugs) /\ skip_existing)
          => /\ outcome'[i] = "Skipped"
                   <=> \E r \in Rows(posts) : r.slug = slugs[i]
             /\ outcome'[i] = "Skipped"
                   => /\ gets' = gets
                      /\ posts' = posts
                      /\ commenter_activity' = commenter_activity]_vars

C6_Witness ==
    /\ pc = "loop" /\ i > 1 /\ skip_existing
    /\ outcome[i - 1] = "Skipped"
    /\ \A r \in Rows(commenter_activity) : r.slug # slugs[i - 1]

\* The store holds what this scrape returned, left there by an earlier
\* ingestion of the same content.
SameAsStored(post) ==
    /\ \E r \in Rows(posts) :
          /\ r.slug = post.slug /\ r.title = post.title
          /\ r.post_date = post.post_date
          /\ r.comment_count = post.comment_count
          /\ r.unique_commenters = post.unique_commenters
          /\ r.cover_image = post.cover_image /\ r.poll_id = post.poll_id
    /\ \A n \in DOMAIN post.commenter_counts :
          \E r \in Rows(commenter_activity) :
              /\ r.slug = post.slug /\ r.username = n
              /\ r.comment_count = post.commenter_counts[n]
    /\ \A r \in Rows(commenter_activity) :
          r.slug = post.slug => r.username \in DOMAIN post.commenter_counts

\* C7: ingesting a slug a second time with identical content leaves exactly
\* one posts row for the slug, no two commenter_activity rows with the same
\* (slug, username), and the same sum of comment_count for the slug.
C7_ReingestIsIdempotent ==
    [][(/\ pc = "save" /\ pc' = "sleep"
        /\ SameAsStored(DBDPost(slugs[i], fields, unique_commenters,
                                commenter_counts)))
          => /\ \A r \in Rows(posts') : r.slug = slugs[i] => posts'[r] = 1
             /\ Cardinality({r \in Rows(posts') : r.slug = slugs[i]}) = 1
             /\ \A r \in Rows(commenter_activity') :
                    r.slug = slugs[i]
                        => /\ commenter_activity'[r] = 1
                           /\ \A q \in Rows(commenter_activity') :
                                 (q.slug = r.slug /\ q.username = r.username)
                                     => q = r
             /\ ActivitySum(commenter_activity', slugs[i])
                    = ActivitySum(commenter_activity, slugs[i])]_vars

\* C8: a run restarted with skip_existing after a kill leaves the rows of
\* every slug that has its posts row unchanged and issues no request for
\* it, and when that run has ended every slug of the list has been
\* processed or skipped.
C8_ResumeAfterKill ==
    [][(resumed /\ resumed' /\ pc \notin Ended)
          => /\ \A slug \in {r.slug : r \in Rows(posts)} :
                   /\ {r \in Rows(posts') : r.slug = slug}
                          = {r \in Rows(posts) : r.slug = slug}
                   /\ \A r \in Rows(commenter_activity) :
                          r.slug = slug
                              => /\ r \in Rows(commenter_activity')
                                 /\ commenter_activity'[r] = commenter_activity[r]
             /\ (gets'.post > gets.post \/ gets'.comments > gets.comments)
                   => ~\E r \in Rows(posts) : r.slug = slugs[i]
             /\ pc' \in {"done", "crashed"} => \A k \in 1..Len(slugs') :
                                                   outcome'[k] # "Pending"]_vars

\* C9: 429 on the first and the second comments request and a good answer
\* to the third: the fetch succeeds after three requests, and the backoff
\* slept is 5 + 10 = 15 seconds.
C9_TwoRateLimitsThenSuccess ==
    comments_log = << 429, 429, 200 >>
        => /\ pc \in {"save", "sleep", "crashed"}
           /\ comments_exc \notin {"RateLimited", "HTTPError", "ConnectionError"}
           /\ gets.comments = 3
           /\ backoffs = << 5, 10 >>
           /\ SumSeq(backoffs) = 15

C9_Witness ==
    /\ comments_log = << 429, 429, 200 >>
    /\ pc = "save" /\ comments_exc = ""
    /\ unique_commenters = 2

\* C10 as claimed: a 429 on the post page is retried, and the slug fails
\* only after three requests.
C10_PostPageRetried ==
    (pc = "sleep" /\ page.status = 429 /\ outcome[i] = "Failed")
        => gets.post = MaxAttempts

\* C10 as amended: the rate-limit handling applies to the comments request
\* only.  A 429 on the post page is not retried: after one request and no
\* backoff the slug ends Failed without a posts row.  On the comments page
\* every 429 is followed by a backoff of 5 seconds times the number of the
\* attempt, and no more than three requests are made.
C10_OnlyCommentsRetried ==
    /\ page.status = 429
          => /\ pc = "sleep"
             /\ outcome[i] = "Failed"
             /\ gets.post = 1 /\ gets.comments = 0
             /\ backoffs = << >>
             /\ ~WrittenNow(slugs[i])
    /\ gets.post <= 1
    /\ gets.comments <= MaxAttempts
    /\ gets.comments = Len(comments_log)
    /\ \A k \in 1..Len(backoffs) : comments_log[k] = 429 /\ backoffs[k] = 5 * k

C10_Witness ==
    /\ pc = "sleep" /\ page.status = 429 /\ gets.post = 1
    /\ outcome[i] = "Failed"

\* The statuses that fail a fetch at once: a transport error (no status, 0)
\* and a bad status other than 429.
HardFailures == {0} \cup {st \in Statuses : st # 429 /\ RaisesForStatus(st)}

\* C11: an answer with a bad status other than 429, or a transport error, on
\* any attempt of a fetch ends that fetch at once.  It is the last request to
\* that URL, and the only backoff sleeps are those that followed the 429
\* answers before it: after the sitemap the run is aborted, after the post
\* page the slug is given up with one request and no backoff, and in the
\* comments retry loop the k-th answer is the last one, with k - 1 sleeps.
C11_HardFailureEndsFetch ==
    /\ listing \in HardFailures =>
          /\ pc = "aborted"
          /\ gets = [sitemap |-> 1, post |-> 0, comments |-> 0]
          /\ backoffs = << >>
    /\ page.status \in HardFailures =>
          /\ pc = "sleep"
          /\ gets.post = 1 /\ gets.comments = 0
          /\ backoffs = << >>
    /\ \A k \in 1..Len(comments_log) :
          comments_log[k] \in HardFailures =>
             /\ k = Len(comments_log)
             /\ gets.comments = k
             /\ Len(backoffs) = k - 1
             /\ \A j \in 1..(k - 1) : comments_log[j] = 429
             /\ pc \in {"save", "sleep", "crashed"}

\* Two 429 answers, each slept out, and then a 500: the post is on its way to
\* save_post with three requests made and two sleeps.
C11_Witness ==
    /\ comments_log = << 429, 429, 500 >>
    /\ backoffs = << 5, 10 >>
    /\ gets.comments = 3
    /\ comments_exc = "HTTPError"
    /\ pc = "save"

\* The number of entries of q that are x.
Occurrences(q, x) == Cardinality({k \in 1..Len(q) : q[k] = x})

\* C12: get_all_dbd_slugs returns the slugs of the sitemap without
\* duplicates and in ascending lexicographic order, however often and in
\* whatever order the sitemap lists them; get_dbd_slugs_for_year returns a
\* sub-list of it in the same order; and for a sitemap with
\* dbd-01-15-2025-foo twice and dbd-02-01-2024-bar the list for 2025 is
\* exactly [dbd-01-15-2025-foo].
C12_SortedDistinctSublist ==
    listed.applied =>
       /\ SeqToSet(listed.all) = SeqToSet(matches)
       /\ \A j, k \in 1..Len(listed.all) :
             j < k => SlugLess(listed.all[j], listed.all[k])
       /\ listed.for_year =
             SelectSeq(listed.all, LAMBDA x : x \in SeqToSet(listed.for_year))
       /\ (/\ Len(matches) = 3
           /\ Occurrences(matches, SlugFoo) = 2
           /\ Occurrences(matches, SlugBar) = 1
           /\ wanted = 2025) => listed.for_year = << SlugFoo >>

\* The sitemap of the example, with the repeated slug around the other one.
C12_Witness ==
    /\ listed.applied
    /\ matches = << SlugFoo, SlugBar, SlugFoo >>
    /\ wanted = 2025
    /\ listed.all = << SlugFoo, SlugBar >>
    /\ listed.for_year = << SlugFoo >>

\* C13: when the sitemap request fails (transport error or bad status) the
\* run is aborted with no slug processed: no post page and no comments page
\* requested, no row written.  When it succeeds and no slug matches, the
\* run goes through the empty loop to its normal end, again with no request
\* for a post or its comments and no row written.
C13_NoSlugsNoWork ==
    [][LET failed == listing' \notin {NoListing, 200}
           empty == listing' = 200 /\ slugs' = << >>
       IN /\ failed => pc' = "aborted" /\ slugs' = << >>
          /\ empty => pc' \in {"loop", "done"} /\ outcome' = << >>
          /\ (pc = "loop" /\ empty) => pc' = "done"
          /\ (failed \/ empty) =>
                /\ gets' = [sitemap |-> 1, post |-> 0, comments |-> 0]
                /\ store' = store]_vars

\* A second run whose sitemap request is answered 500: aborted, with the rows
\* of the first run in place.
C13_Witness ==
    /\ pc = "aborted"
    /\ listing = 500
    /\ clock = 2
    /\ posts # EmptyBag
    /\ gets = [sitemap |-> 1, post |-> 0, comments |-> 0]

\* The author of every node of a comment list, children after their parent;
\* a node without a name goes under "Unknown".
RECURSIVE AuthorsOfNodes(_)
AuthorsOfNodes(nodes) ==
    IF nodes = << >> THEN << >>
    ELSE LET c == Head(nodes)
             below == IF HasKey(c, "children")
                      THEN AuthorsOfNodes(Get(c, "children", JNull).val)
                      ELSE << >>
         IN << IF HasKey(c, "name") THEN Get(c, "name", JNull) ELSE JStr("Unknown") >>
            \o below \o AuthorsOfNodes(Tail(nodes))

RECURSIVE SumCounts(_, _)
SumCounts(counts, names) ==
    IF names = {} THEN 0
    ELSE LET n == CHOOSE x \in names : TRUE
         IN counts[n] + SumCounts(counts, names \ {n})

\* C14: for every well-formed comment list the aggregation counts every node
\* at every depth once: no exception, the per-author counts add up to the
\* number of nodes, each author has as many as there are nodes of that
\* author, the distinct-author count is the number of different names, and a
\* node without a name is counted under "Unknown".  In particular
\* [{name: a}, {name: b, children: [{name: a}]}] gives {a: 2, b: 1} and two
\* distinct authors.
C14_EveryNodeCountedOnce ==
    tally.applied =>
       LET authors == AuthorsOfNodes(comment_list.val) IN
       /\ tally.exc = ""
       /\ DOMAIN tally.counts = SeqToSet(authors)
       /\ \A a \in DOMAIN tally.counts : tally.counts[a] = Occurrences(authors, a)
       /\ SumCounts(tally.counts, DOMAIN tally.counts) = Len(authors)
       /\ tally.unique = Cardinality(SeqToSet(authors))
       /\ comment_list = JArr(<< Node(JStr("a")),
                                 NodeWith(JStr("b"), JArr(<< Node(JStr("a")) >>)) >>)
             => /\ tally.counts = (JStr("a") :> 2) @@ (JStr("b") :> 1)
                /\ tally.unique = 2

\* A list three levels deep with a nameless node below a node called
\* "Unknown": [{name: a, children: [{name: Unknown, children: [{}]}]}].
C14_Witness ==
    /\ tally.applied
    /\ comment_list =
          JArr(<< WellFormedNode(JStr("a"),
                     << WellFormedNode(JStr("Unknown"),
                           << WellFormedNode(Nameless, << >>) >>) >>) >>)
    /\ tally.counts = (JStr("a") :> 1) @@ (JStr("Unknown") :> 2)
    /\ tally.unique = 2

\* The commenter_activity rows of a slug.
ActivityOf(table, slug) == {r \in Rows(table) : r.slug = slug}

\* C15: save_post of a slug that has rows already deletes none of its
\* commenter_activity rows.  Every (slug, author) key there was is still
\* there; the rows of the authors of the new scrape carry the new counts;
\* the rows of the authors that the new scrape does not have are as they
\* were.
C15_ReingestKeepsActivityRows ==
    [][(pc = "save" /\ pc' = "sleep") =>
          LET slug == slugs[i]
              before == ActivityOf(commenter_activity, slug)
              after == ActivityOf(commenter_activity', slug)
          IN /\ {r.username : r \in before} \subseteq {r.username : r \in after}
             /\ \A r \in after :
                   r.username \in DOMAIN commenter_counts =>
                      r.comment_count = commenter_counts[r.username]
             /\ \A r \in before :
                   r.username \notin DOMAIN commenter_counts =>
                      /\ r \in after
                      /\ commenter_activity'[r] = commenter_activity[r]]_vars

FooUrl == JStr(BASE_URL \o << "p", LatestFoo >>)
BarUrl == JStr(BASE_URL \o << "p", LatestBar >>)

\* C16: whenever the latest post that get_latest_dbd_url resolves differs
\* from the watched one, the stored baseline becomes (new target, 0) and a
\* "New DBD Post" notification for the new target is sent, all before the
\* comments page of that pass is requested.
C16_NewTargetAnnounced ==
    [][(w_pc = "resolve" /\ latest_url' # JNull /\ latest_url' # current_url) =>
          /\ current_url' = latest_url'
          /\ read_state(state_file') = [url |-> latest_url', count |-> 0]
          /\ notifications' = << NewPostNote(latest_url') >>
          /\ requests' = << ARCHIVE_URL >>
          /\ w_pc' = "count"]_vars

\* C16 as the code has it: the baseline is reset at every change of the
\* target, but the notification is sent only when a target was watched
\* before in this process; the first resolution after the start adopts its
\* target in silence.
C16_NewTargetAnnouncedIfWatching ==
    [][(w_pc = "resolve" /\ latest_url' # JNull /\ latest_url' # current_url) =>
          /\ current_url' = latest_url'
          /\ read_state(state_file') = [url |-> latest_url', count |-> 0]
          /\ notifications' = IF current_url = JNull THEN << >>
                              ELSE << NewPostNote(latest_url') >>
          /\ requests' = << ARCHIVE_URL >>
          /\ w_pc' = "count"]_vars

\* The target has gone from foo, with eight comments counted, to bar: the
\* notification is out, the baseline is (bar, 0), and the comments page has
\* not been asked for yet.
C16_Witness ==
    /\ w_pc = "count"
    /\ current_url = BarUrl
    /\ latest_url = BarUrl
    /\ notifications = << NewPostNote(BarUrl) >>
    /\ read_state(state_file) = [url |-> BarUrl, count |-> 0]
    /\ requests = << ARCHIVE_URL >>

\* C17: with the baseline at 0 an observed count above 0 becomes the
\* baseline without a notification; with a baseline above 0 an observed
\* count above it is notified with the difference observed - stored and
\* becomes the baseline.  Reset, 5, 8: nothing for 5, "3 new" for 8.
C17_SilentFirstCountThenDeltas ==
    [][(w_pc = "count" /\ new_count' # JNull) =>
          LET stored == read_state(state_file)
              n == new_count'.val
          IN n > stored.count =>
                /\ read_state(state_file') = [url |-> current_url, count |-> n]
                /\ notifications' =
                      IF stored.count = 0 THEN notifications
                      ELSE Append(notifications,
                                  UpdateNote(n - stored.count, n, current_url))
                /\ (stored.count = 5 /\ n = 8) =>
                      notifications' = << UpdateNote(3, 8, current_url) >>]_vars

\* Eight comments observed over a baseline of five.
C17_Witness ==
    /\ w_pc = "sleep"
    /\ current_url = FooUrl
    /\ new_count = JNum(8)
    /\ notifications = << UpdateNote(3, 8, FooUrl) >>
    /\ read_state(state_file) = [url |-> FooUrl, count |-> 8]

C19_RestartKeepsBaseline ==
    [][(/\ w_pc = "resolve"
        /\ current_url = JNull
        /\ latest_url' # JNull
        /\ read_state(state_file).url = latest_url') =>
          /\ state_file' = state_file
          /\ notifications' = << >>]_vars

\* C20: a pass that starts outside the active hours (hour below 6 or from
\* 18 on) does nothing but sleep the check interval: no request, no
\* notification, the watched target and the state file as they were.
C20_InactivePassOnlySleeps ==
    [][(/\ w_pc \in {"top", "sleep"} /\ w_pc' # "start"
        /\ (hour' < 6 \/ hour' >= 18)) =>
          /\ w_pc = "top" => w_pc' = "sleep" /\ slept' = 0
          /\ w_pc = "sleep" => w_pc' = "top" /\ slept' = CHECK_INTERVAL
          /\ requests' = << >>
          /\ notifications' = << >>
          /\ UNCHANGED << current_url, state_file >>]_vars

\* A pass at 18 o'clock is over, with a target watched and a baseline
\* stored.
C20_Witness ==
    /\ w_pc = "top"
    /\ hour = 18
    /\ slept = CHECK_INTERVAL
    /\ requests = << >>
    /\ notifications = << >>
    /\ current_url = FooUrl
    /\ read_state(state_file) = [url |-> FooUrl, count |-> 8]

\* C21: a fetch failure never ends the monitor loop.  A pass whose archive
\* request or whose comments request fails (or finds nothing) goes to the
\* sleep without sending a notification for it and without touching the
\* watched target or the state file; the sleep of the check interval leads
\* back to the head of the loop, where the next pass starts with the same
\* steps; and the process is never anywhere but in the loop, unless it is
\* stopped from outside and launched again.
C21_FetchFailureKeepsLooping ==
    [][w_pc' # "start" =>
          /\ (w_pc = "resolve" /\ latest_url' = JNull) =>
                /\ w_pc' = "sleep"
                /\ notifications' = << >>
                /\ UNCHANGED << current_url, state_file >>
          /\ (w_pc = "count" /\ new_count' = JNull) =>
                /\ w_pc' = "sleep"
                /\ notifications' = notifications
                /\ UNCHANGED << current_url, state_file >>
          /\ w_pc = "sleep" => w_pc' = "top" /\ slept' = CHECK_INTERVAL
          /\ (w_pc = "top" /\ 6 <= hour' /\ hour' < 18) =>
                w_pc' = "resolve" /\ requests' = << >>
          /\ w_pc' \in {"top", "resolve", "count", "sleep"}]_vars

\* A pass in which the archive was read and the comments request failed is
\* over: slept, nothing sent, and the loop is at its head again with the
\* target and the baseline of before.
C21_Witness ==
    /\ w_pc = "top"
    /\ slept = CHECK_INTERVAL
    /\ requests = << ARCHIVE_URL, comments_url(FooUrl.val) >>
    /\ latest_url = FooUrl
    /\ new_count = JNull
    /\ notifications = << >>
    /\ current_url = FooUrl
    /\ read_state(state_file) = [url |-> FooUrl, count |-> 5]

\* C22: an invocation with --top-commenters N, whatever the integer N,
\* leaves the ingestion out: no request for the sitemap, a post or its
\* comments, and no change to the posts and commenter_activity tables.
C22_TopCommentersBypassesIngestion ==
    [][top_commenters' # JNull =>
          /\ gets' = NoGets
          /\ store' = store
          /\ pc' = "done"]_vars

\* The tables after save_post of the posts of both writers, one after the
\* other, on the empty database.
SequentialStore(first, second) ==
    LET one == save_post(writers[first].post, EmptyBag, EmptyBag, first)
        two == save_post(writers[second].post, one.posts, one.activity, second)
    IN << two.posts, two.activity >>

\* The tables after save_post of the post of w alone.
AloneStore(w) ==
    LET one == save_post(writers[w].post, EmptyBag, EmptyBag, w)
    IN << one.posts, one.activity >>

WritersEnded == \A w \in Writers : writers[w].pc \in {"closed", "locked"}

SlugRows(tables, slug) ==
    << [r \in {x \in Rows(tables[1]) : x.slug = slug} |-> tables[1][r]],
       [r \in {x \in Rows(tables[2]) : x.slug = slug} |-> tables[2][r]] >>

C24_EverySlugEndsFinal ==
    pc \in {"done", "crashed"} =>
       \A k \in 1..Len(slugs) :
          /\ outcome[k] \in {"Persisted", "Skipped", "Failed"}
          /\ outcome[k] = "Persisted" => WrittenNow(slugs[k])
          /\ outcome[k] = "Skipped" => skip_existing /\ is_post_scraped(slugs[k])
          /\ outcome[k] = "Failed" => ~WrittenNow(slugs[k])

\* C25: for one slug, the post page is requested at most once and the
\* comments page at most three times; after three 429 answers in a row the
\* process has slept 5, 10 and 15 seconds (the third sleep follows the last
\* attempt), the comments stage has failed, and no fourth request is made.
C25_BoundedRequestsPerSlug ==
    /\ gets.post <= 1
    /\ gets.comments <= 3
    /\ (comments_log = <<429, 429, 429>> /\ pc # "backoff") =>
          /\ backoffs = <<5, 10, 15>>
          /\ comments_exc = "RateLimited"
          /\ gets.comments = 3
          /\ pc \in {"save", "sleep", "crashed"}

\* C25 witness: three 429 answers were waited out and the comments stage
\* has failed, with the post about to be saved.
C25_Witness ==
    /\ pc = "save"
    /\ comments_log = <<429, 429, 429>>
    /\ backoffs = <<5, 10, 15>>
    /\ comments_exc = "RateLimited"
    /\ gets = [post |-> 1, sitemap |-> 1, comments |-> 3]

\* The post page of the current slug gave no post: the request failed or was
\* answered with an error status, or the page has no payload or one that
\* does not decode.  scrape_post returns None.
NoPostReturned ==
    /\ page # NoPage
    /\ \/ page.payload \in {"unread", "absent", "undecodable"}
       \/ RaisesForStatus(page.status)

\* C26: from the moment scrape_post finds no post for a slug until the run
\* goes on to the next slug, no step changes the store: no row is created,
\* and the rows of an earlier ingestion keep all their values.
C26_NoPostLeavesStore ==
    [][NoPostReturned' => /\ posts' = posts
                          /\ commenter_activity' = commenter_activity]_vars

\* C26 witness: a second run without skip_existing found no payload on the
\* page of a slug the first run had persisted; the row of the first run is
\* still there and the run is about to go on.
C26_Witness ==
    /\ pc = "sleep"
    /\ ~skip_existing
    /\ page = [status |-> 200, payload |-> "absent"]
    /\ outcome[i] = "Failed"
    /\ clock = 2
    /\ \E r \in Rows(posts) : r.slug = slugs[i] /\ r.scraped_at = 1
    /\ ~WrittenNow(slugs[i])

\* Every post page this run has read came with a good status and a payload
\* that decoded: no slug failed but, at most, the one the run ended on.
PagesDecoded ==
    \A k \in 1..Len(slugs) :
        outcome[k] = "Failed" =>
            k = i /\ page = [status |-> 200, payload |-> "decoded"]

\* Every discovered slug had its posts row before this run began.
AllPersistedBefore ==
    \A k \in 1..Len(slugs) :
        \E r \in Rows(posts) : r.slug = slugs[k] /\ r.scraped_at < clock

\* C27: runs with skip_existing converge.  A run that has ended and in which
\* every post page read was decodable leaves every discovered slug with a
\* posts row; and a run that finds every discovered slug persisted makes no
\* post-page and no comments request.
C27_SkipExistingRunsConverge ==
    /\ (skip_existing /\ pc \in {"done", "crashed"} /\ PagesDecoded) =>
           \A k \in 1..Len(slugs) : is_post_scraped(slugs[k])
    /\ (skip_existing /\ slugs # << >> /\ AllPersistedBefore) =>
           /\ gets.post = 0 /\ gets.comments = 0
           /\ pc \in {"loop", "done", "killed"}

\* C28: whatever runs of scrape_year there have been, with or without
\* skip_existing and whatever failed in them, every commenter_activity row
\* belongs to a slug that has a posts row.
C28_ActivityRowsHaveParent ==
    \A a \in Rows(commenter_activity) : \E p \in Rows(posts) : p.slug = a.slug

\* C28 witness: the second run has ended in save_post, which could not bind
\* the post it was given and committed nothing, over author rows of the
\* first run.
C28_Witness ==
    /\ clock = 2
    /\ pc = "crashed"
    /\ gets.comments > 0
    /\ ~Storable(fields.title)
    /\ commenter_counts # EmptyDict
    /\ commenter_activity # EmptyBag
    /\ ~WrittenNow(slugs[i])

\* The larger of two counts.
Larger(a, b) == IF a > b THEN a ELSE b

C30_ExactlySlugsOfYear ==
    listed.applied =>
       SeqToSet(listed.for_year) =
          {s \in SeqToSet(matches) : s[4] = ToString(wanted)}

====
